---- MODULE Spec2Model ----
(***************************************************************************)
(* LongPollBuffer (src/pollers/poll_buffer.rs): a pool of                  *)
(* concurrent_pollers worker tasks that long-poll only as often as poll()  *)
(* was called, pushing the results into a bounded mpsc channel.            *)
(*                                                                         *)
(* The tokio primitives are modelled by what they do:                      *)
(*   Semaphore   polls_requested counts the available permits; acquire()   *)
(*               takes one, dropping a SemaphorePermit gives it back,      *)
(*               forget() does not.                                        *)
(*   mpsc        buffered_polls is the FIFO content of channel(buffer_size)*)
(*               send waits while it is full; recv yields None once it is  *)
(*               empty and every Sender is dropped.                        *)
(*   watch       shutdown is the value; unseen[w] says the version is one  *)
(*               worker w's Receiver has not marked seen, which is when    *)
(*               changed() is ready.                                       *)
(*   Mutex       locked is the FIFO queue of poll() calls, its head owns   *)
(*               the Receiver.                                             *)
(* A select! takes any branch that is ready.  channel(0) panics in new, so *)
(* buffer_size starts at 1; concurrent_pollers may be 0.                   *)
(***************************************************************************)
EXTENDS Integers, Sequences, FiniteSets, TLC

\* Bounds of the model: the largest concurrent_pollers and buffer_size tried,
\* the number of poll() calls made, and the number of DrivenWorkflow method
\* calls made.
MaxPollers == 2
MaxBuffer == 2
MaxPolls == 2
MaxCalls == 4

VARIABLES
    concurrent_pollers, \* K, argument of new
    buffer_size,        \* C, argument of new
    shutdown,           \* value of the watch channel
    unseen,             \* per worker: its watch::Receiver holds a version it has not marked seen
    polls_requested,    \* permits available in the semaphore
    pc,                 \* per worker: position in the spawned loop
    sp,                 \* per worker: TRUE while it owns a SemaphorePermit
    r,                  \* per worker: the result of pf() it is about to send
    buffered_polls,     \* contents of the mpsc channel
    locked,             \* FIFO queue of the Mutex around the Receiver, head owns it
    call,               \* per poll() call: "new", "pending", "returned", "dropped",
                        \* or "unpolled" for a future dropped before it ran at all
    ret,                \* per poll() call: what it returned
    join_handles,       \* state of shutdown(self): "none", "joining", "resolved"
    invoked,            \* number of pf() invocations started
    forgotten,          \* number of permits finalized by sp.forget()
    pushed,             \* every result accepted by tx.send, in order
    removed,            \* every result taken out by recv, in order
    produced,           \* kind each pf() completed with, in completion order
    started_attrs,               \* DrivenWorkflow: Option of the attributes given to start
    outgoing_wf_activation_jobs, \* DrivenWorkflow: VecDeque of job variants
    fetcher,                     \* DrivenWorkflow: the wrapped WorkflowFetcher
    history                      \* every DrivenWorkflow method call so far, with what it returned

\* The fields of a LongPollBuffer with what the model records about it, and
\* those of a DrivenWorkflow: two objects that share no state.
long_poll_buffer == <<concurrent_pollers, buffer_size, shutdown, unseen, polls_requested, pc, sp, r,
                      buffered_polls, locked, call, ret, join_handles,
                      invoked, forgotten, pushed, removed, produced>>

driven_workflow == <<started_attrs, outgoing_wf_activation_jobs, fetcher, history>>

vars == <<long_poll_buffer, driven_workflow>>

Workers == 1..concurrent_pollers
Calls == 1..MaxPolls
Kinds == {"Ok", "Err"}
NoResult == [id |-> 0, kind |-> "None"]

\* Option::None of started_attrs.
None == "None"

\* Number of workers between pf() being called and its select! being decided.
InFlight == Cardinality({w \in Workers : pc[w] = "poll"})

\* Number of poll() calls that executed add_permits(1).
Issued == Cardinality({c \in DOMAIN call : call[c] \notin {"new", "unpolled"}})

Pending == {c \in DOMAIN call : call[c] = "pending"}

\* Mutant of SendersDropped: the buffer keeps the original tx, so the channel
\* never closes.
SendersDroppedTxKept == FALSE

\* Every Sender clone is dropped: the original at the end of new, each
\* worker's when its task ends.
SendersDropped == \A w \in Workers : pc[w] = "done"

\* shutdown.changed() is ready for worker w.
Changed(w) == unseen[w]

\* Mutant of SendTrue: the flag is flipped instead of set.
SendToggles ==
    /\ shutdown' = ~shutdown
    /\ unseen' = [w \in Workers |-> pc[w] # "done"]

\* self.shutdown.send(true): stores the value and bumps the version, which
\* every live Receiver clone then has not seen.
SendTrue ==
    /\ shutdown' = TRUE
    /\ unseen' = [w \in Workers |-> pc[w] # "done"]

Remove(q, c) == SelectSeq(q, LAMBDA x : x # c)

\* LongPollBuffer::new(poll_fn, concurrent_pollers, buffer_size), about to
\* receive n calls of poll(): nothing requested, nothing buffered, every
\* worker task spawned at the top of its loop.
New(k, c, n) ==
    /\ concurrent_pollers = k
    /\ buffer_size = c
    /\ shutdown = FALSE
    /\ unseen = [w \in 1..k |-> FALSE]
    /\ polls_requested = 0
    /\ pc = [w \in 1..k |-> "loop"]
    /\ sp = [w \in 1..k |-> FALSE]
    /\ r = [w \in 1..k |-> NoResult]
    /\ buffered_polls = <<>>
    /\ locked = <<>>
    /\ call = [i \in 1..n |-> "new"]
    /\ ret = [i \in 1..n |-> NoResult]
    /\ join_handles = "none"
    /\ invoked = 0
    /\ forgotten = 0
    /\ pushed = <<>>
    /\ removed = <<>>
    /\ produced = <<>>

\* DrivenWorkflow::from(fetcher): no start attributes, no job queued.
From ==
    /\ started_attrs = None
    /\ outgoing_wf_activation_jobs = <<>>
    /\ fetcher = [calls |-> 0, output |-> <<>>]
    /\ history = <<>>

Init ==
    /\ \E k \in 0..MaxPollers, c \in 1..MaxBuffer : New(k, c, MaxPolls)
    /\ From

\* if *shutdown.borrow() { break; } The task that breaks ends, and its
\* watch::Receiver goes with it.
WorkerLoop(w) ==
    /\ pc[w] = "loop"
    /\ pc' = [pc EXCEPT ![w] = IF shutdown THEN "done" ELSE "acquire"]
    /\ unseen' = [unseen EXCEPT ![w] = IF shutdown THEN FALSE ELSE @]
    /\ UNCHANGED <<driven_workflow, concurrent_pollers, buffer_size, shutdown, polls_requested, sp, r,
                   buffered_polls, locked, call, ret, join_handles,
                   invoked, forgotten, pushed, removed, produced>>

\* Mutant of WorkerAcquire: the worker polls without waiting for a permit.
WorkerAcquireUngated(w) ==
    /\ pc[w] = "acquire"
    /\ polls_requested' = IF polls_requested > 0 THEN polls_requested - 1 ELSE 0
    /\ sp' = [sp EXCEPT ![w] = TRUE]
    /\ invoked' = invoked + 1
    /\ pc' = [pc EXCEPT ![w] = "poll"]
    /\ UNCHANGED <<driven_workflow, concurrent_pollers, buffer_size, shutdown, unseen, r,
                   buffered_polls, locked, call, ret, join_handles,
                   forgotten, pushed, removed, produced>>

\* First select!, branch polls_requested.acquire(); the second select! then
\* evaluates pf(), which starts an invocation.
WorkerAcquire(w) ==
    /\ pc[w] = "acquire"
    /\ polls_requested > 0
    /\ polls_requested' = polls_requested - 1
    /\ sp' = [sp EXCEPT ![w] = TRUE]
    /\ invoked' = invoked + 1
    /\ pc' = [pc EXCEPT ![w] = "poll"]
    /\ UNCHANGED <<driven_workflow, concurrent_pollers, buffer_size, shutdown, unseen, r,
                   buffered_polls, locked, call, ret, join_handles,
                   forgotten, pushed, removed, produced>>

\* First select!, branch shutdown.changed() => continue. The only value ever
\* sent is true, so the check at the top of the loop that follows breaks.
WorkerAcquireChanged(w) ==
    /\ pc[w] = "acquire"
    /\ Changed(w)
    /\ unseen' = [unseen EXCEPT ![w] = FALSE]
    /\ pc' = [pc EXCEPT ![w] = IF shutdown THEN "done" ELSE "acquire"]
    /\ UNCHANGED <<driven_workflow, concurrent_pollers, buffer_size, shutdown, polls_requested, sp, r,
                   buffered_polls, locked, call, ret, join_handles,
                   invoked, forgotten, pushed, removed, produced>>

\* Mutant of WorkerPolled: an error is not forwarded; the worker calls pf()
\* again under the permit it holds.
WorkerPolledRetriesErr(w) ==
    /\ pc[w] = "poll"
    /\ \/ /\ r' = [r EXCEPT ![w] = [id |-> forgotten + 1, kind |-> "Ok"]]
          /\ produced' = Append(produced, "Ok")
          /\ sp' = [sp EXCEPT ![w] = FALSE]
          /\ forgotten' = forgotten + 1
          /\ pc' = [pc EXCEPT ![w] = "send"]
          /\ UNCHANGED invoked
       \/ /\ invoked <= MaxPolls
          /\ invoked' = invoked + 1
          /\ UNCHANGED <<r, produced, sp, forgotten, pc>>
    /\ UNCHANGED <<driven_workflow, concurrent_pollers, buffer_size, shutdown, unseen, polls_requested,
                   buffered_polls, locked, call, ret, join_handles,
                   pushed, removed>>

\* Mutant of WorkerPolled: sp is dropped instead of forgotten, which hands
\* the permit back to the semaphore.
WorkerPolledNoForget(w) ==
    /\ pc[w] = "poll"
    /\ \E k \in Kinds :
        /\ r' = [r EXCEPT ![w] = [id |-> forgotten + 1, kind |-> k]]
        /\ produced' = Append(produced, k)
    /\ sp' = [sp EXCEPT ![w] = FALSE]
    /\ polls_requested' = polls_requested + 1
    /\ forgotten' = forgotten + 1
    /\ pc' = [pc EXCEPT ![w] = "send"]
    /\ UNCHANGED <<driven_workflow, concurrent_pollers, buffer_size, shutdown, unseen,
                   buffered_polls, locked, call, ret, join_handles,
                   invoked, pushed, removed>>

\* Second select!, branch r = pf() => r, then sp.forget(). Results are
\* numbered in the order the invocations complete.
WorkerPolled(w) ==
    /\ pc[w] = "poll"
    /\ \E k \in Kinds :
        /\ r' = [r EXCEPT ![w] = [id |-> forgotten + 1, kind |-> k]]
        /\ produced' = Append(produced, k)
    /\ sp' = [sp EXCEPT ![w] = FALSE]
    /\ forgotten' = forgotten + 1
    /\ pc' = [pc EXCEPT ![w] = "send"]
    /\ UNCHANGED <<driven_workflow, concurrent_pollers, buffer_size, shutdown, unseen, polls_requested,
                   buffered_polls, locked, call, ret, join_handles,
                   invoked, pushed, removed>>

\* Mutant of WorkerPollChanged: the shutdown flag is not looked at again
\* after the continue, the worker goes back to acquiring a permit.
WorkerPollChangedRetries(w) ==
    /\ pc[w] = "poll"
    /\ Changed(w)
    /\ unseen' = [unseen EXCEPT ![w] = FALSE]
    /\ sp' = [sp EXCEPT ![w] = FALSE]
    /\ polls_requested' = polls_requested + 1
    /\ pc' = [pc EXCEPT ![w] = "acquire"]
    /\ UNCHANGED <<driven_workflow, concurrent_pollers, buffer_size, shutdown, r,
                   buffered_polls, locked, call, ret, join_handles,
                   invoked, forgotten, pushed, removed, produced>>

\* Mutant of WorkerPollChanged: the permit is forgotten when shutdown wins,
\* not handed back to the semaphore.
WorkerPollChangedLosesPermit(w) ==
    /\ pc[w] = "poll"
    /\ Changed(w)
    /\ unseen' = [unseen EXCEPT ![w] = FALSE]
    /\ sp' = [sp EXCEPT ![w] = FALSE]
    /\ pc' = [pc EXCEPT ![w] = IF shutdown THEN "done" ELSE "acquire"]
    /\ UNCHANGED <<driven_workflow, concurrent_pollers, buffer_size, shutdown, polls_requested, r,
                   buffered_polls, locked, call, ret, join_handles,
                   invoked, forgotten, pushed, removed, produced>>

\* Second select!, branch shutdown.changed() => continue: the pf() future and
\* the SemaphorePermit sp are dropped, and dropping sp releases the permit;
\* the check at the top of the loop that follows breaks.
WorkerPollChanged(w) ==
    /\ pc[w] = "poll"
    /\ Changed(w)
    /\ unseen' = [unseen EXCEPT ![w] = FALSE]
    /\ sp' = [sp EXCEPT ![w] = FALSE]
    /\ polls_requested' = polls_requested + 1
    /\ pc' = [pc EXCEPT ![w] = IF shutdown THEN "done" ELSE "acquire"]
    /\ UNCHANGED <<driven_workflow, concurrent_pollers, buffer_size, shutdown, r,
                   buffered_polls, locked, call, ret, join_handles,
                   invoked, forgotten, pushed, removed, produced>>

\* Mutant of WorkerSend: the channel is unbounded, a send never waits.
WorkerSendUnbounded(w) ==
    /\ pc[w] = "send"
    /\ buffered_polls' = Append(buffered_polls, r[w])
    /\ pushed' = Append(pushed, r[w])
    /\ r' = [r EXCEPT ![w] = NoResult]
    /\ pc' = [pc EXCEPT ![w] = "loop"]
    /\ UNCHANGED <<driven_workflow, concurrent_pollers, buffer_size, shutdown, unseen, polls_requested, sp,
                   locked, call, ret, join_handles,
                   invoked, forgotten, removed, produced>>

\* Mutant of WorkerSend: try_send in place of send().await; a result that
\* finds the channel full is thrown away and the worker goes on.
WorkerSendDropsWhenFull(w) ==
    /\ pc[w] = "send"
    /\ IF Len(buffered_polls) < buffer_size
       THEN /\ buffered_polls' = Append(buffered_polls, r[w])
            /\ pushed' = Append(pushed, r[w])
       ELSE UNCHANGED <<buffered_polls, pushed>>
    /\ r' = [r EXCEPT ![w] = NoResult]
    /\ pc' = [pc EXCEPT ![w] = "loop"]
    /\ UNCHANGED <<driven_workflow, concurrent_pollers, buffer_size, shutdown, unseen, polls_requested, sp,
                   locked, call, ret, join_handles,
                   invoked, forgotten, removed, produced>>

\* let _ = tx.send(r).await; suspended while the channel is full.
WorkerSend(w) ==
    /\ pc[w] = "send"
    /\ Len(buffered_polls) < buffer_size
    /\ buffered_polls' = Append(buffered_polls, r[w])
    /\ pushed' = Append(pushed, r[w])
    /\ r' = [r EXCEPT ![w] = NoResult]
    /\ pc' = [pc EXCEPT ![w] = "loop"]
    /\ UNCHANGED <<driven_workflow, concurrent_pollers, buffer_size, shutdown, unseen, polls_requested, sp,
                   locked, call, ret, join_handles,
                   invoked, forgotten, removed, produced>>

\* Mutant of Poll: demand is a flag, not a count; a permit is added only when
\* none is available.
PollNotCounting(c) ==
    /\ call[c] = "new"
    /\ \A d \in 1..(c - 1) : call[d] # "new"
    /\ join_handles = "none"
    /\ polls_requested' = IF polls_requested = 0 THEN 1 ELSE polls_requested
    /\ locked' = Append(locked, c)
    /\ call' = [call EXCEPT ![c] = "pending"]
    /\ UNCHANGED <<driven_workflow, concurrent_pollers, buffer_size, shutdown, unseen, pc, sp, r,
                   buffered_polls, ret, join_handles,
                   invoked, forgotten, pushed, removed, produced>>

\* Mutant of Poll: one permit per worker is added, so that a single call
\* wakes every poller.
PollAddsPerWorker(c) ==
    /\ call[c] = "new"
    /\ \A d \in 1..(c - 1) : call[d] # "new"
    /\ join_handles = "none"
    /\ polls_requested' = polls_requested + concurrent_pollers
    /\ locked' = Append(locked, c)
    /\ call' = [call EXCEPT ![c] = "pending"]
    /\ UNCHANGED <<driven_workflow, concurrent_pollers, buffer_size, shutdown, unseen, pc, sp, r,
                   buffered_polls, ret, join_handles,
                   invoked, forgotten, pushed, removed, produced>>

\* poll(): add_permits(1), then queue for the Mutex around the Receiver.
\* Calls are numbered in the order they are issued; shutdown(self) consumes
\* the buffer, so no poll() starts after it.
Poll(c) ==
    /\ call[c] = "new"
    /\ \A d \in 1..(c - 1) : call[d] # "new"
    /\ join_handles = "none"
    /\ polls_requested' = polls_requested + 1
    /\ locked' = Append(locked, c)
    /\ call' = [call EXCEPT ![c] = "pending"]
    /\ UNCHANGED <<driven_workflow, concurrent_pollers, buffer_size, shutdown, unseen, pc, sp, r,
                   buffered_polls, ret, join_handles,
                   invoked, forgotten, pushed, removed, produced>>

\* Mutant of Recv: the newest buffered result is taken instead of the oldest.
RecvNewest(c) ==
    /\ call[c] = "pending"
    /\ locked # <<>>
    /\ c = Head(locked)
    /\ \/ /\ buffered_polls # <<>>
          /\ ret' = [ret EXCEPT ![c] = buffered_polls[Len(buffered_polls)]]
          /\ removed' = Append(removed, buffered_polls[Len(buffered_polls)])
          /\ buffered_polls' = SubSeq(buffered_polls, 1, Len(buffered_polls) - 1)
       \/ /\ buffered_polls = <<>>
          /\ SendersDropped
          /\ ret' = [ret EXCEPT ![c] = NoResult]
          /\ UNCHANGED <<removed, buffered_polls>>
    /\ locked' = Tail(locked)
    /\ call' = [call EXCEPT ![c] = "returned"]
    /\ UNCHANGED <<driven_workflow, concurrent_pollers, buffer_size, shutdown, unseen, polls_requested, pc, sp, r,
                   join_handles,
                   invoked, forgotten, pushed, produced>>

\* (*locked).recv().await by the call that owns the Mutex: the oldest buffered
\* result, or None once the channel is empty and every Sender is dropped.
Recv(c) ==
    /\ call[c] = "pending"
    /\ locked # <<>>
    /\ c = Head(locked)
    /\ \/ /\ buffered_polls # <<>>
          /\ ret' = [ret EXCEPT ![c] = Head(buffered_polls)]
          /\ removed' = Append(removed, Head(buffered_polls))
          /\ buffered_polls' = Tail(buffered_polls)
       \/ /\ buffered_polls = <<>>
          /\ SendersDropped
          /\ ret' = [ret EXCEPT ![c] = NoResult]
          /\ UNCHANGED <<removed, buffered_polls>>
    /\ locked' = Tail(locked)
    /\ call' = [call EXCEPT ![c] = "returned"]
    /\ UNCHANGED <<driven_workflow, concurrent_pollers, buffer_size, shutdown, unseen, polls_requested, pc, sp, r,
                   join_handles,
                   invoked, forgotten, pushed, produced>>

\* The caller drops the future of a pending poll() (select! with another
\* branch, as in tests::only_polls_once_with_1_poller): the permit it added
\* stays, nothing is taken out of the channel.
DropPoll(c) ==
    /\ call[c] = "pending"
    /\ locked' = Remove(locked, c)
    /\ call' = [call EXCEPT ![c] = "dropped"]
    /\ UNCHANGED <<driven_workflow, concurrent_pollers, buffer_size, shutdown, unseen, polls_requested, pc, sp, r,
                   buffered_polls, ret, join_handles,
                   invoked, forgotten, pushed, removed, produced>>

\* notify_shutdown(): self.shutdown.send(true).
NotifyShutdown ==
    /\ join_handles = "none"
    /\ SendTrue
    /\ UNCHANGED <<driven_workflow, concurrent_pollers, buffer_size, polls_requested, pc, sp, r,
                   buffered_polls, locked, call, ret, join_handles,
                   invoked, forgotten, pushed, removed, produced>>

\* shutdown(mut self): self.shutdown.send(true), then wait on join_handles.
\* It takes self by value, so no poll() future borrows the buffer any more.
Shutdown ==
    /\ join_handles = "none"
    /\ Pending = {}
    /\ SendTrue
    /\ join_handles' = "joining"
    /\ UNCHANGED <<driven_workflow, concurrent_pollers, buffer_size, polls_requested, pc, sp, r,
                   buffered_polls, locked, call, ret,
                   invoked, forgotten, pushed, removed, produced>>

\* while self.join_handles.next().await.is_some() {}: every JoinHandle has
\* finished, next() yields None and shutdown() resolves.
ShutdownResolved ==
    /\ join_handles = "joining"
    /\ \A w \in Workers : pc[w] = "done"
    /\ join_handles' = "resolved"
    /\ UNCHANGED <<driven_workflow, concurrent_pollers, buffer_size, shutdown, unseen, polls_requested, pc, sp, r,
                   buffered_polls, locked, call, ret,
                   invoked, forgotten, pushed, removed, produced>>

Next ==
    \/ \E w \in Workers : WorkerLoop(w)
    \/ \E w \in Workers : WorkerAcquire(w)
    \/ \E w \in Workers : WorkerAcquireChanged(w)
    \/ \E w \in Workers : WorkerPolled(w)
    \/ \E w \in Workers : WorkerPollChanged(w)
    \/ \E w \in Workers : WorkerSend(w)
    \/ \E c \in DOMAIN call : Poll(c)
    \/ \E c \in DOMAIN call : Recv(c)
    \/ \E c \in DOMAIN call : DropPoll(c)
    \/ NotifyShutdown
    \/ Shutdown
    \/ ShutdownResolved

Spec == Init /\ [][Next]_vars

\* A step of worker w that its task takes as soon as the runtime polls it:
\* every step but the completion of pf(), which is up to the poll operation.
WorkerStep(w) ==
    /\ w \in Workers
    /\ \/ WorkerLoop(w)
       \/ WorkerAcquire(w)
       \/ WorkerAcquireChanged(w)
       \/ WorkerPollChanged(w)
       \/ WorkerSend(w)

\* The runtime keeps polling spawned tasks and awaited futures that are ready:
\* worker tasks, the poll() calls their callers still await, and shutdown().
\* Nothing makes pf() complete, and callers may drop a poll() at any time.
Fairness ==
    /\ \A w \in 1..MaxPollers : WF_vars(WorkerStep(w))
    /\ \A c \in Calls : WF_vars(Recv(c))
    /\ WF_vars(ShutdownResolved)

FairSpec == Spec /\ Fairness

\* The same, with a poll operation that always eventually completes.
PollsComplete == \A w \in 1..MaxPollers : WF_vars(w \in Workers /\ WorkerPolled(w))

LiveSpec == Spec /\ Fairness /\ PollsComplete

\* poll() called only once every earlier call has returned: "called serially
\* and always awaited" of the doc comment of poll.
SerialPoll(c) ==
    /\ Pending = {}
    /\ Poll(c)

\* The buffer used serially, never shut down, no call dropped.
SerialNext ==
    \/ \E w \in Workers : WorkerLoop(w)
    \/ \E w \in Workers : WorkerAcquire(w)
    \/ \E w \in Workers : WorkerPolled(w)
    \/ \E w \in Workers : WorkerSend(w)
    \/ \E c \in Calls : SerialPoll(c)
    \/ \E c \in Calls : Recv(c)

SerialSpec == Init /\ [][SerialNext]_vars

\* tests::only_polls_once_with_1_poller interrupts this many poll() calls
\* (for _ in 0..10) before it awaits one.
Interrupted == 10

\* new_workflow_task_buffer(mock_gateway, "someq", 1, 1), about to receive the
\* calls of the test.
TestInit ==
    /\ New(1, 1, Interrupted + 1)
    /\ From

\* The test calls pb.poll() once it is done with its previous call.
TestPoll(c) ==
    /\ Pending = {}
    /\ Poll(c)

\* select! polls its branches in an order it picks. interrupter_rx.recv() is
\* ready in each of the first ten iterations: polled after pb.poll(), it wins
\* over a poll() that is pending and the future is dropped.
TestInterrupt(c) ==
    /\ c <= Interrupted
    /\ DropPoll(c)

\* interrupter_rx.recv() polled first: the pb.poll() future is dropped
\* before its body ran, so that not even add_permits(1) happened.
TestInterruptUnpolled(c) ==
    /\ c <= Interrupted
    /\ call[c] = "new"
    /\ \A d \in 1..(c - 1) : call[d] # "new"
    /\ Pending = {}
    /\ call' = [call EXCEPT ![c] = "unpolled"]
    /\ UNCHANGED <<driven_workflow, concurrent_pollers, buffer_size, shutdown, unseen,
                   polls_requested, pc, sp, r, buffered_polls, locked, ret, join_handles,
                   invoked, forgotten, pushed, removed, produced>>

\* pb.shutdown().await, after pb.poll().await.unwrap().unwrap().
TestShutdown ==
    /\ call[Interrupted + 1] = "returned"
    /\ Shutdown

\* The mock poll_workflow_task sleeps 100ms and returns Ok(Default::default()).
TestPolled(w) ==
    /\ WorkerPolled(w)
    /\ r'[w].kind = "Ok"

\* The steps of the test and of the worker task that take no time.
TestStep ==
    \/ \E w \in Workers : WorkerLoop(w)
    \/ \E w \in Workers : WorkerAcquire(w)
    \/ \E w \in Workers : WorkerAcquireChanged(w)
    \/ \E w \in Workers : WorkerPollChanged(w)
    \/ \E w \in Workers : WorkerSend(w)
    \/ \E c \in DOMAIN call : TestPoll(c)
    \/ \E c \in DOMAIN call : TestInterrupt(c)
    \/ \E c \in DOMAIN call : TestInterruptUnpolled(c)
    \/ \E c \in DOMAIN call : Recv(c)
    \/ TestShutdown
    \/ ShutdownResolved

\* The sleep of the mock ends only when the test and the worker both wait:
\* the poll operation is slow next to every other step.
TestNext ==
    \/ TestStep
    \/ /\ ~ENABLED TestStep
       /\ \E w \in Workers : TestPolled(w)

TestSpec == TestInit /\ [][TestNext]_vars

(***************************************************************************)
(* DrivenWorkflow (core/src/workflow/driven_workflow.rs): the start        *)
(* attributes, a FIFO queue of activation job variants and the wrapped     *)
(* WorkflowFetcher.  A job variant is [kind, body]; a u64 seed, like every *)
(* other argument, is an opaque value.  history records each call as       *)
(* [op, args, ret].                                                        *)
(***************************************************************************)
Attrs == {"attrs1", "attrs2"}
WorkflowIds == {"wf1"}
Seeds == {"seed1"}
Signals == {"signal1"}
Cancels == {"cancel1"}
Outputs == {<<>>, <<"cmd1", "cmd2">>}
Unit == "()"

\* start_workflow_from_attribs(attribs, workflow_id, randomness_seed).into():
\* the StartWorkflow job of these three values, as a Variant.
start_workflow_from_attribs(attribs, workflow_id, randomness_seed) ==
    [kind |-> "StartWorkflow", body |-> <<attribs, workflow_id, randomness_seed>>]

\* workflow_activation_job::Variant::SignalWorkflow(signal)
SignalWorkflow(signal) == [kind |-> "SignalWorkflow", body |-> <<signal>>]

\* workflow_activation_job::Variant::CancelWorkflow(attribs)
CancelWorkflow(attribs) == [kind |-> "CancelWorkflow", body |-> <<attribs>>]

\* The values of workflow_activation_job::Variant a caller may hand to send_job.
Variants ==
    {start_workflow_from_attribs(a, i, x) : a \in Attrs, i \in WorkflowIds, x \in Seeds}
        \cup {SignalWorkflow(x) : x \in Signals}
        \cup {CancelWorkflow(x) : x \in Cancels}
        \cup {[kind |-> "FireTimer", body |-> <<"timer1">>]}

\* Into::into from a Variant to a WorkflowActivationJob, which wraps it.
WorkflowActivationJob(v) == [variant |-> v]

\* .map(Into::into).collect() over the drained elements.
MapInto(q) == [i \in 1..Len(q) |-> WorkflowActivationJob(q[i])]

\* A method call is made and returns value.
Called(op, args, value) ==
    /\ Len(history) < MaxCalls
    /\ history' = Append(history, [op |-> op, args |-> args, ret |-> value])

\* send_job: self.outgoing_wf_activation_jobs.push_back(job).
send_job(job) ==
    outgoing_wf_activation_jobs' = Append(outgoing_wf_activation_jobs, job)

\* Mutant of Start: the attributes are set once, a later start keeps them.
StartKeepsFirstAttrs(workflow_id, randomness_seed, attribs) ==
    /\ send_job(start_workflow_from_attribs(attribs, workflow_id, randomness_seed))
    /\ started_attrs' = IF started_attrs = None THEN attribs ELSE started_attrs
    /\ Called("start", <<workflow_id, randomness_seed, attribs>>, Unit)
    /\ UNCHANGED <<fetcher, long_poll_buffer>>

\* Mutant of Start: a workflow that has started ignores another start.
StartIgnoresSecond(workflow_id, randomness_seed, attribs) ==
    /\ IF started_attrs = None
       THEN /\ send_job(start_workflow_from_attribs(attribs, workflow_id, randomness_seed))
            /\ started_attrs' = attribs
       ELSE UNCHANGED <<outgoing_wf_activation_jobs, started_attrs>>
    /\ Called("start", <<workflow_id, randomness_seed, attribs>>, Unit)
    /\ UNCHANGED <<fetcher, long_poll_buffer>>

\* start: send_job of the start job, then self.started_attrs = Some(attribs).
Start(workflow_id, randomness_seed, attribs) ==
    /\ send_job(start_workflow_from_attribs(attribs, workflow_id, randomness_seed))
    /\ started_attrs' = attribs
    /\ Called("start", <<workflow_id, randomness_seed, attribs>>, Unit)
    /\ UNCHANGED <<fetcher, long_poll_buffer>>

\* self.started_attrs.as_ref()
get_started_attrs == started_attrs

GetStartedAttrs ==
    /\ Called("get_started_attrs", <<>>, get_started_attrs)
    /\ UNCHANGED <<started_attrs, outgoing_wf_activation_jobs, fetcher, long_poll_buffer>>

\* A caller's own send_job(job).
SendJob(job) ==
    /\ send_job(job)
    /\ Called("send_job", <<job>>, Unit)
    /\ UNCHANGED <<started_attrs, fetcher, long_poll_buffer>>

\* Mutant of has_pending_jobs: a single queued job does not count.
HasMoreThanOnePendingJob == Len(outgoing_wf_activation_jobs) > 1

\* !self.outgoing_wf_activation_jobs.is_empty()
has_pending_jobs == outgoing_wf_activation_jobs # <<>>

HasPendingJobs ==
    /\ Called("has_pending_jobs", <<>>, has_pending_jobs)
    /\ UNCHANGED <<started_attrs, outgoing_wf_activation_jobs, fetcher, long_poll_buffer>>

\* Mutant of DrainJobs: the jobs are copied out of the queue, not drained.
DrainJobsKeepsQueue ==
    /\ Called("drain_jobs", <<>>, MapInto(outgoing_wf_activation_jobs))
    /\ UNCHANGED <<started_attrs, outgoing_wf_activation_jobs, fetcher, long_poll_buffer>>

\* drain_jobs: drain(..) removes every element front to back.
DrainJobs ==
    /\ Called("drain_jobs", <<>>, MapInto(outgoing_wf_activation_jobs))
    /\ outgoing_wf_activation_jobs' = <<>>
    /\ UNCHANGED <<started_attrs, fetcher, long_poll_buffer>>

\* signal: send_job(Variant::SignalWorkflow(signal)).
Signal(signal) ==
    /\ send_job(SignalWorkflow(signal))
    /\ Called("signal", <<signal>>, Unit)
    /\ UNCHANGED <<started_attrs, fetcher, long_poll_buffer>>

\* cancel: send_job(Variant::CancelWorkflow(attribs)).
Cancel(attribs) ==
    /\ send_job(CancelWorkflow(attribs))
    /\ Called("cancel", <<attribs>>, Unit)
    /\ UNCHANGED <<started_attrs, fetcher, long_poll_buffer>>

\* fetch_workflow_iteration_output of the wrapped fetcher, which hands out
\* whatever commands the workflow produced.
Fetch(output) ==
    fetcher' = [calls |-> fetcher.calls + 1, output |-> output]

\* Mutant of FetchWorkflowIterationOutput: the wrapped fetcher is asked
\* twice and the commands of the first answer are lost.
FetchTwiceKeepsLast ==
    /\ \E first \in Outputs, output \in Outputs :
        fetcher' = [calls |-> fetcher.calls + 2, output |-> output]
    /\ Called("fetch_workflow_iteration_output", <<>>, fetcher'.output)
    /\ UNCHANGED <<started_attrs, outgoing_wf_activation_jobs, long_poll_buffer>>

\* self.fetcher.fetch_workflow_iteration_output().await
FetchWorkflowIterationOutput ==
    /\ \E output \in Outputs : Fetch(output)
    /\ Called("fetch_workflow_iteration_output", <<>>, fetcher'.output)
    /\ UNCHANGED <<started_attrs, outgoing_wf_activation_jobs, long_poll_buffer>>

\* A DrivenWorkflow on its own, next to a buffer nobody uses.
DrivenInit ==
    /\ New(0, 1, 0)
    /\ From

DrivenNext ==
    \/ \E i \in WorkflowIds, x \in Seeds, a \in Attrs : Start(i, x, a)
    \/ GetStartedAttrs
    \/ \E job \in Variants : SendJob(job)
    \/ HasPendingJobs
    \/ DrainJobs
    \/ \E x \in Signals : Signal(x)
    \/ \E x \in Cancels : Cancel(x)
    \/ FetchWorkflowIterationOutput

DrivenSpec == DrivenInit /\ [][DrivenNext]_vars

\* A buffer that receives more poll() calls than its workers and its channel
\* can hold results for.
DemandInit ==
    /\ \E k \in 0..MaxPollers, c \in 1..MaxBuffer : New(k, c, k + c + 1)
    /\ From

DemandSpec == DemandInit /\ [][Next]_vars

Min(a, b) == IF a < b THEN a ELSE b

Dropped == {c \in DOMAIN call : call[c] = "dropped"}

(***************************************************************************)
(* Claims                                                                  *)
(***************************************************************************)

\* C1: the poll attempts in flight plus the attempts completed (permit
\* finalized by sp.forget()) never exceed the permits issued by poll() calls.
C1_AttemptsWithinPermits == InFlight + forgotten <= Issued

C1_Witness ==
    /\ InFlight >= 1
    /\ forgotten >= 1
    /\ InFlight + forgotten = Issued
    /\ Dropped # {}
    /\ shutdown

\* C2: the invocations of the poll operation in flight at any instant are at
\* most min(D, K), D the number of poll() calls issued and K the concurrency.
C2_InFlightAtMostMinDK == InFlight <= Min(Issued, concurrent_pollers)

C2_Witness ==
    /\ concurrent_pollers = 2
    /\ Issued = 2
    /\ InFlight = 2
    /\ Dropped = {}
    /\ ~shutdown

\* C3: once the shutdown flag is set every worker loop eventually terminates,
\* and shutdown() eventually resolves, whatever the channel holds.
C3_ShutdownTerminates ==
    /\ shutdown ~> SendersDropped
    /\ (join_handles = "joining") ~> (join_handles = "resolved")

\* C4: poll() returns None only when the shutdown flag is set and the channel
\* is empty.
C4_NoneOnlyAfterShutdown ==
    \A c \in Calls :
        (call[c] = "returned" /\ ret[c] = NoResult) =>
            (shutdown /\ buffered_polls = <<>>)
\* C5: once the shutdown flag is set, every poll() call that is pending, then
\* or later, eventually returns; what it returns is a buffered result, or None
\* once the channel is empty and every worker has left its loop.
C5_PollReturnsAfterShutdown ==
    /\ \A c \in Calls : (shutdown /\ call[c] = "pending") ~> (call[c] # "pending")
    /\ [][\A c \in Calls :
            (shutdown /\ call[c] = "pending" /\ call'[c] = "returned") =>
                \/ buffered_polls # <<>> /\ ret'[c] = Head(buffered_polls)
                \/ buffered_polls = <<>> /\ SendersDropped /\ ret'[c] = NoResult]_vars

C5_Witness ==
    /\ shutdown
    /\ concurrent_pollers >= 1
    /\ \E c, d \in Calls :
        /\ c < d
        /\ call[c] = "returned" /\ ret[c] # NoResult
        /\ call[d] = "returned" /\ ret[d] = NoResult

\* C6: absent shutdown, with K >= 1 and every poll() call awaited, if pf()
\* always completes then every call returns a result and at least as many
\* invocations are started as calls were issued.
C6_DemandIsServed ==
    /\ \A c \in Calls :
        (concurrent_pollers >= 1 /\ call[c] = "pending") ~>
            \/ call[c] = "returned" /\ ret[c] # NoResult
            \/ shutdown
            \/ Dropped # {}
    /\ \A d \in 1..MaxPolls :
        (concurrent_pollers >= 1 /\ Issued >= d) ~>
            \/ invoked >= d
            \/ shutdown
            \/ Dropped # {}

C6_Witness ==
    /\ concurrent_pollers >= 1
    /\ ~shutdown
    /\ Dropped = {}
    /\ Issued = 2
    /\ invoked = 2
    /\ \A c \in 1..2 : call[c] = "returned" /\ ret[c] # NoResult
\* C7: with poll() called strictly serially on a buffer with K >= 1 workers,
\* at most one invocation is in flight at any instant, and once the n-th call
\* has returned exactly n invocations have been started.
C7_SerialPollsOnePerCall ==
    concurrent_pollers >= 1 =>
        /\ InFlight <= 1
        /\ invoked <= Issued
        /\ Pending = {} => invoked = Issued
        /\ \A c \in Calls : call[c] = "returned" => ret[c] # NoResult

C7_Witness ==
    /\ concurrent_pollers = 2
    /\ Issued = 2
    /\ Pending = {}
    /\ invoked = 2
IsPrefix(p, q) == Len(p) <= Len(q) /\ \A i \in 1..Len(p) : p[i] = q[i]

Returned == {c \in DOMAIN call : call[c] = "returned" /\ ret[c] # NoResult}

InSend == {w \in Workers : pc[w] = "send"}

\* C8: the results removed by poll() calls, in removal order, are a prefix of
\* the results pushed, the rest being what the channel holds; no result is
\* pushed twice and no two calls return the same result.
C8_FifoDistinct ==
    /\ IsPrefix(removed, pushed)
    /\ pushed = removed \o buffered_polls
    /\ \A i, j \in 1..Len(pushed) : pushed[i].id = pushed[j].id => i = j
    /\ \A c, d \in Returned : ret[c] = ret[d] => c = d
    /\ {ret[c] : c \in Returned} = {removed[i] : i \in 1..Len(removed)}

C8_Witness ==
    /\ Len(removed) = 2
    /\ removed[1].id = 2
    /\ Cardinality(Returned) = 2

\* C9: the channel never holds more than buffer_size results, and a worker
\* in tx.send stays there, starting no poll attempt, until the channel has
\* room and takes its result.
C9_BoundedBuffer ==
    /\ [](Len(buffered_polls) <= buffer_size)
    /\ [][\A w \in Workers :
            pc[w] = "send" =>
                \/ pc'[w] = "send" /\ r'[w] = r[w]
                \/ /\ Len(buffered_polls) < buffer_size
                   /\ buffered_polls' = Append(buffered_polls, r[w])
                   /\ pc'[w] = "loop"
                   /\ invoked' = invoked]_vars

C9_Witness ==
    /\ Len(buffered_polls) = buffer_size
    /\ InSend # {}
    /\ ~shutdown

\* C10: a result of pf(), error or not, is pushed and returned unchanged;
\* there is one result per finalized permit, none suppressed; an invocation
\* starts only by taking a permit; and a worker goes on looping after it
\* pushed a result, whatever its kind.
C10_ErrorsForwarded ==
    /\ [](/\ forgotten = Len(produced)
          /\ forgotten = Len(pushed) + Cardinality(InSend)
          /\ \A i \in 1..Len(pushed) : pushed[i].kind = produced[pushed[i].id]
          /\ \A w \in InSend : r[w].kind = produced[r[w].id]
          /\ \A c \in Returned : ret[c].kind = produced[ret[c].id])
    /\ [][/\ invoked' # invoked =>
                invoked' = invoked + 1 /\ polls_requested' = polls_requested - 1
          /\ \A w \in Workers :
                (pc[w] = "send" /\ pc'[w] # "send") => pc'[w] = "loop"]_vars

C10_Witness ==
    /\ concurrent_pollers = 1
    /\ \E c, d \in Returned :
        /\ ret[c].kind = "Err"
        /\ ret[d].kind = "Ok"
        /\ ret[c].id < ret[d].id

\* C11: in the scenario of tests::only_polls_once_with_1_poller (one worker,
\* buffer of one, a slow poll operation, ten poll() calls dropped before any
\* result, one poll() awaited, then shutdown()) the poll operation is invoked
\* at most twice and the awaited poll() returns a successful result.
C11_OnlyPollsOnceWith1Poller ==
    /\ invoked <= 2
    /\ call[Interrupted + 1] = "returned" =>
        /\ ret[Interrupted + 1] # NoResult
        /\ ret[Interrupted + 1].kind = "Ok"

C11_Witness ==
    /\ join_handles = "resolved"
    /\ Dropped = 1..Interrupted
    /\ call[Interrupted + 1] = "returned"
    /\ ret[Interrupted + 1].kind = "Ok"
    /\ invoked = 2

\* The job a call enqueues, read off its arguments.
JobOf(h) ==
    CASE h.op = "start" -> start_workflow_from_attribs(h.args[3], h.args[1], h.args[2])
      [] h.op = "signal" -> SignalWorkflow(h.args[1])
      [] h.op = "cancel" -> CancelWorkflow(h.args[1])
      [] h.op = "send_job" -> h.args[1]

Enqueues == {"start", "signal", "cancel", "send_job"}

\* The jobs enqueued by calls i+1..j of the history, in call order.
RECURSIVE EnqueuedBetween(_, _)
EnqueuedBetween(i, j) ==
    IF j <= i THEN <<>>
    ELSE IF history[j].op \in Enqueues
         THEN Append(EnqueuedBetween(i, j - 1), JobOf(history[j]))
         ELSE EnqueuedBetween(i, j - 1)

Drains == {i \in 1..Len(history) : history[i].op = "drain_jobs"}

\* The last drain_jobs among calls 1..i-1, or 0.
DrainBefore(i) ==
    IF \E j \in Drains : j < i
    THEN CHOOSE j \in Drains : j < i /\ \A k \in Drains : k < i => k <= j
    ELSE 0

\* What the drain_jobs calls among 1..j returned, concatenated.
RECURSIVE DrainedUpTo(_)
DrainedUpTo(j) ==
    IF j = 0 THEN <<>>
    ELSE IF j \in Drains
         THEN DrainedUpTo(j - 1) \o history[j].ret
         ELSE DrainedUpTo(j - 1)

\* C12: whatever send_job, signal, cancel and start calls are interleaved with
\* drain_jobs, each drain_jobs returns exactly the jobs enqueued since the
\* previous one, in enqueue order, and leaves the queue empty; the drains
\* concatenated with what is still queued are the enqueued sequence, so each
\* job is returned exactly once, and a drain with nothing new returns nothing.
C12_DrainsPartitionEnqueued ==
    /\ \A i \in Drains : history[i].ret = MapInto(EnqueuedBetween(DrainBefore(i), i))
    /\ outgoing_wf_activation_jobs
           = EnqueuedBetween(DrainBefore(Len(history) + 1), Len(history))
    /\ DrainedUpTo(Len(history)) \o MapInto(outgoing_wf_activation_jobs)
           = MapInto(EnqueuedBetween(0, Len(history)))

C12_Witness ==
    /\ Cardinality(Drains) = 2
    /\ \A i \in Drains : history[i].ret # <<>>
    /\ outgoing_wf_activation_jobs = <<>>

Starts == {i \in 1..Len(history) : history[i].op = "start"}

\* The attributes given to the last start among calls 1..i-1, None if there
\* is no such call.
StartedBefore(i) ==
    IF \E j \in Starts : j < i
    THEN history[CHOOSE j \in Starts : j < i /\ \A k \in Starts : k < i => k <= j].args[3]
    ELSE None

\* C13: get_started_attrs returns None as long as start was never called and
\* afterwards the attributes of the most recent start, whatever other calls
\* are interleaved.
C13_StartedAttrsOfLastStart ==
    /\ \A i \in 1..Len(history) :
        history[i].op = "get_started_attrs" => history[i].ret = StartedBefore(i)
    /\ get_started_attrs = StartedBefore(Len(history) + 1)

C13_Witness ==
    /\ Cardinality(Starts) = 2
    /\ \E i \in Starts, j \in Starts : history[i].args[3] # history[j].args[3]
    /\ history[Len(history)].op = "get_started_attrs"
    /\ \E i \in 1..Len(history) : history[i].op \in {"signal", "cancel", "send_job", "drain_jobs"}

Held == Cardinality({w \in Workers : sp[w]})

\* C16: permits are conserved: those issued by poll() are the ones available
\* in the semaphore, plus the ones workers hold for an invocation in flight,
\* plus the ones consumed by completed invocations; when shutdown wins over
\* an invocation in flight the permit goes back to the semaphore.
C16_PermitsConserved ==
    /\ [](Issued = polls_requested + Held + forgotten)
    /\ [](Held = InFlight)
    /\ [][\A w \in Workers : WorkerPollChanged(w) =>
            /\ polls_requested' = polls_requested + 1
            /\ forgotten' = forgotten
            /\ ~sp'[w]]_vars

C16_Witness ==
    /\ shutdown
    /\ invoked > forgotten + InFlight
    /\ polls_requested > 0
    /\ forgotten + InFlight > 0

\* C15: has_pending_jobs is true exactly when the outgoing queue is not
\* empty: false on a new DrivenWorkflow and right after drain_jobs, true
\* after any send_job, signal, cancel or start that no drain_jobs followed.
C15_PendingIffEnqueuedSinceDrain ==
    /\ \A i \in 1..Len(history) :
        history[i].op = "has_pending_jobs" =>
            (history[i].ret <=> EnqueuedBetween(DrainBefore(i), i) # <<>>)
    /\ has_pending_jobs <=> Len(outgoing_wf_activation_jobs) > 0
    /\ history = <<>> => ~has_pending_jobs
    /\ history # <<>> =>
        /\ history[Len(history)].op = "drain_jobs" => ~has_pending_jobs
        /\ history[Len(history)].op \in Enqueues => has_pending_jobs

C15_Witness ==
    /\ Len(history) = 4
    /\ history[1].op \in Enqueues
    /\ history[2].op = "has_pending_jobs" /\ history[2].ret
    /\ history[3].op = "drain_jobs"
    /\ history[4].op = "has_pending_jobs" /\ ~history[4].ret

\* C17: at any moment the poll operation was invoked at most as many times
\* as results were taken out by poll() callers, plus buffer_size, plus
\* concurrent_pollers, however many poll() calls were issued or abandoned.
C17_Backpressure == invoked <= Len(removed) + buffer_size + concurrent_pollers

C17_Witness ==
    /\ Issued > buffer_size + concurrent_pollers
    /\ Dropped # {}
    /\ invoked = Len(removed) + buffer_size + concurrent_pollers
    /\ polls_requested > 0
    /\ concurrent_pollers > 0

\* The call a step makes: the entry it adds to the history.
Made == history'[Len(history')]

IsCall == Len(history') = Len(history) + 1

\* C18: every start appends exactly one start job, built from the given
\* attributes, workflow id and seed, to the tail of the outgoing queue and
\* sets the started attributes to the given ones. A start on a workflow that
\* has started is not rejected: it does the same, and the first start job
\* stays in the queue if it was not drained.
C18_StartEnqueuesAndSets ==
    /\ [][(IsCall /\ Made.op = "start") =>
            /\ outgoing_wf_activation_jobs' =
                   Append(outgoing_wf_activation_jobs,
                          start_workflow_from_attribs(Made.args[3], Made.args[1], Made.args[2]))
            /\ outgoing_wf_activation_jobs'[Len(outgoing_wf_activation_jobs')].kind = "StartWorkflow"
            /\ started_attrs' = Made.args[3]]_vars
    /\ [](Len(history) < MaxCalls =>
            \A i \in WorkflowIds, x \in Seeds, a \in Attrs : ENABLED <<Start(i, x, a)>>_vars)

C18_Witness ==
    /\ Len(history) = 2
    /\ Starts = {1, 2}
    /\ history[1].args[3] # history[2].args[3]
    /\ Len(outgoing_wf_activation_jobs) = 2
    /\ outgoing_wf_activation_jobs[1].body[1] = history[1].args[3]
    /\ outgoing_wf_activation_jobs[2].body[1] = history[2].args[3]
    /\ started_attrs = history[2].args[3]

\* C19: only start changes the started attributes; get_started_attrs,
\* has_pending_jobs and fetch_workflow_iteration_output leave the outgoing
\* queue as it is; fetch_workflow_iteration_output calls the wrapped fetcher
\* exactly once and returns exactly the commands the wrapped fetcher returned.
C19_Frame ==
    [][IsCall =>
        /\ Made.op # "start" => started_attrs' = started_attrs
        /\ Made.op \in {"get_started_attrs", "has_pending_jobs",
                        "fetch_workflow_iteration_output"} =>
               outgoing_wf_activation_jobs' = outgoing_wf_activation_jobs
        /\ IF Made.op = "fetch_workflow_iteration_output"
           THEN /\ fetcher'.calls = fetcher.calls + 1
                /\ Made.ret = fetcher'.output
           ELSE fetcher' = fetcher]_vars

C19_Witness ==
    /\ Len(history) = 4
    /\ history[1].op = "start"
    /\ history[2].op = "fetch_workflow_iteration_output" /\ history[2].ret # <<>>
    /\ history[3].op = "has_pending_jobs"
    /\ history[4].op = "get_started_attrs"
    /\ fetcher.calls = 1
    /\ Len(outgoing_wf_activation_jobs) = 1
    /\ started_attrs # None

====
